---- MODULE Spec2Model ----
\* Model of the map-view lifecycle controller of src/src/components/MapboxMap.tsx:
\* the MapboxMap React component, its state, refs, effects and the asynchronous
\* continuations it schedules (geolocation callbacks, timers, script events,
\* map events).
EXTENDS Integers, Sequences, FiniteSets, Bags, TLC

\* ---------------------------------------------------------------- bounds
\* How many events disturb one behaviour after the first mount: inputs of the
\* user and the parent (a press of Retry, a change of the selectedLocation
\* prop, an unmount, a remount) and faults of the SDK (an `error` event, a
\* throwing constructor or setStyle).  A failed script load is not counted:
\* the script element is injected at most once per page (line 67).
MaxEvents == 1

\* How many times the user presses Retry in the behaviours that no other
\* input and no fault disturbs.
MaxRetries == 4

\* The instances one behaviour can mount.
Gens == 1..(MaxEvents + 1)

\* ------------------------------------------------------------- constants
\* null for strings (error, locationError), for coordinates and for handles.
Null == "null"
NullLoc == <<>>
NoHandle == 0

\* Coordinates are [lng, lat] pairs in thousandths of a degree.
\* [-0.09, 51.505], the London fallback.
Fallback == <<-90, 51505>>
\* zoom: 13
DefaultZoom == 13

\* What the geolocation capability can report: position.coords.
GeoPositions == {[latitude |-> 56780, longitude |-> 12340]}
\* GeolocationPositionError codes.
PERMISSION_DENIED == 1
POSITION_UNAVAILABLE == 2
TIMEOUT == 3
GeoErrorCodes == {PERMISSION_DENIED, POSITION_UNAVAILABLE, TIMEOUT}

\* Values of the selectedLocation prop.
SelectedLocations == {NullLoc, <<-74006, 40713>>}

\* Style identifiers.
DefaultStyle == "mapbox://styles/mapbox/streets-v12"
CustomStyle == "mapbox://styles/mamalmirza/cmgtuwcll003k01qrexcs3se4"
RemoteStyle == "mapbox://styles/user/remote"
LocalStyle == "/styles/rdr2-style/style.json"
\* The props a parent may pass ("" is an absent prop).
AccessTokens == {"", "pk.token"}
StyleUrls == {"", RemoteStyle, DefaultStyle}
LocalStylePaths == {"", LocalStyle}

\* Error messages.
NoTokenMsg == "No Mapbox access token provided"
\* script.onerror's message as it would be if it reported the SDK as missing.
ScriptFailedAsMissing == "Mapbox not available"
ScriptFailedMsg == "Failed to load Mapbox script"
NotAvailableMsg == "Mapbox not available"
CreateFailedMsg == "Failed to create map: Error"
TimeoutMsg == "Map load timeout - please check console for details. Try refreshing the page."
GeoUnsupportedMsg == "Geolocation is not supported by this browser"

\* The messages of the SDK's `error` events: "" is an event without
\* error.message; the others are words of the message.
ErrorEvents == {<<>>, <<"network", "failed">>, <<"bad", "style">>}

VARIABLES
    \* props
    accessToken, styleUrl, localStylePath, selectedLocation,
    \* host: navigator.geolocation present
    geolocation,
    \* the mounted instance: mounted, its number, its useState values, and the
    \* values of the last committed render
    mounted, gen, state, rendered,
    \* useRef handles, per instance
    mapInstance, markerInstance,
    \* the page: <link> and <script> tags, the script's load state,
    \* window.mapboxgl.accessToken
    cssLinks, scriptTags, scriptState, sdkAccessToken,
    \* continuations in flight
    geoPending, initTimers, scriptHandlers, graceTimers, spriteWaits, loadTimers,
    \* every map constructed, in order of construction
    maps,
    \* the remove() calls of the last teardown, in order
    teardown,
    \* counters of the environment's inputs
    nEvents, nGeoRequests

propVars == <<accessToken, styleUrl, localStylePath, geolocation>>
refVars == <<mapInstance, markerInstance>>
pageVars == <<cssLinks, scriptTags, scriptState, sdkAccessToken>>
vars == <<accessToken, styleUrl, localStylePath, selectedLocation, geolocation,
          mounted, gen, state, rendered, mapInstance, markerInstance,
          cssLinks, scriptTags, scriptState, sdkAccessToken,
          geoPending, initTimers, scriptHandlers, graceTimers, spriteWaits,
          loadTimers, maps, teardown, nEvents, nGeoRequests>>

\* ------------------------------------------------------- component state
\* The useState initial values (lines 36-41).
InitialState ==
    [isLoading |-> TRUE, error |-> Null, userLocation |-> NullLoc,
     locationError |-> Null, locationRequested |-> FALSE, retryCount |-> 0]

\* No marker: markerInstance.current = null.
NoMarker == [made |-> FALSE, pos |-> NullLoc, map |-> NoHandle]

\* What the component returns (lines 470, 510, 529): the error panel, the
\* spinner or the map container.
View(s) ==
    IF s.error # Null THEN "error"
    ELSE IF s.isLoading THEN "loading"
    ELSE "map"

\* State setters reach only the mounted instance they belong to.
Alive(g) == mounted /\ g = gen

\* setError(msg); setIsLoading(false) issued by a continuation of instance g.
setError(s, g, msg) ==
    IF Alive(g) THEN [s EXCEPT !.error = msg, !.isLoading = FALSE] ELSE s

\* ----------------------------------------------------------- geolocation
\* The pair as it would be in [latitude, longitude] order.
ToLatLng(coords) == <<coords.latitude, coords.longitude>>

\* [longitude, latitude] of a reported position (line 167).
ToLngLat(coords) == <<coords.longitude, coords.latitude>>

\* The message of a geolocation failure (lines 172-184).
GeoErrorMessage(code) ==
    CASE code = PERMISSION_DENIED -> "Location access denied by user"
      [] code = POSITION_UNAVAILABLE -> "Location information is unavailable"
      [] code = TIMEOUT -> "Location request timed out"
      [] OTHER -> "Unable to get your location"

\* getCurrentPosition() run on state s: the state it leaves, synchronously.
getCurrentPosition(s) ==
    IF ~geolocation
    THEN [s EXCEPT !.locationRequested = TRUE,
                   !.locationError = GeoUnsupportedMsg,
                   !.userLocation = Fallback]
    ELSE [s EXCEPT !.locationRequested = TRUE]

\* ------------------------------------------------------------- rendering
\* The closure a render hands to its callbacks: the instance and the
\* userLocation of that render.
Closure(g, s) == [gen |-> g, userLocation |-> s.userLocation]

\* mapRef(node) with a node (lines 407-417): whether it starts the 100 ms
\* timer that calls initializeMap.
mapRefStarts(s) ==
    \/ accessToken # "" /\ s.userLocation # NullLoc
    \/ accessToken # "" /\ s.locationRequested /\ s.userLocation = NullLoc

\* The effect as it would be without its conditions on the credential and the
\* location.
forceTransitionAlways(s) ==
    IF s.isLoading THEN [s EXCEPT !.isLoading = FALSE] ELSE s

\* The effect as it would be if it never cleared isLoading.
forceTransitionNever(s) == s

\* The force-transition effect (lines 429-437) on the committed state s.
forceTransition(s) ==
    IF accessToken # "" /\ s.isLoading /\ s.userLocation # NullLoc
    THEN [s EXCEPT !.isLoading = FALSE]
    ELSE IF accessToken # "" /\ s.isLoading /\ s.locationRequested
            /\ s.userLocation = NullLoc
    THEN [s EXCEPT !.isLoading = FALSE]
    ELSE s

\* Whether the effect's dependency list changed between two commits.
depsChanged(old, new) ==
    <<old.isLoading, old.userLocation, old.locationRequested>>
        # <<new.isLoading, new.userLocation, new.locationRequested>>

\* What a render commits.
Snapshot(s, sel) ==
    [isLoading |-> s.isLoading, error |-> s.error, userLocation |-> s.userLocation,
     locationError |-> s.locationError, locationRequested |-> s.locationRequested,
     retryCount |-> s.retryCount, selectedLocation |-> sel]

\* A commit of state s: the container's ref callback runs (mapRef is a new
\* function in every render, so it is detached and attached again), then the
\* effects whose dependencies changed.
Commit(s, sel) ==
    /\ rendered' = Snapshot(s, sel)
    /\ initTimers' =
         IF View(s) = "map" /\ mapRefStarts(s)
         THEN Append(initTimers, Closure(gen, s))
         ELSE initTimers
    /\ state' = IF depsChanged(rendered, s) THEN forceTransition(s) ELSE s

\* ------------------------------------------------------------------ Init
Init ==
    /\ accessToken \in AccessTokens
    /\ styleUrl \in StyleUrls
    /\ localStylePath \in LocalStylePaths
    /\ geolocation \in BOOLEAN
    /\ selectedLocation = NullLoc
    /\ mounted = FALSE
    /\ gen = 0
    /\ state = InitialState
    /\ rendered = Snapshot(InitialState, NullLoc)
    /\ mapInstance = [g \in Gens |-> NoHandle]
    /\ markerInstance = [g \in Gens |-> NoMarker]
    /\ cssLinks = 0
    /\ scriptTags = 0
    /\ scriptState = "absent"
    /\ sdkAccessToken = ""
    /\ geoPending = {}
    /\ initTimers = <<>>
    /\ scriptHandlers = <<>>
    /\ graceTimers = <<>>
    /\ spriteWaits = EmptyBag
    /\ loadTimers = <<>>
    /\ maps = <<>>
    /\ teardown = <<>>
    /\ nEvents = 0
    /\ nGeoRequests = 0

\* The effect's branch as it would be without setIsLoading(false).
noTokenKeepsLoading(s) == [s EXCEPT !.error = NoTokenMsg]

\* The credential-keyed effect without a credential (lines 444-449).
noToken(s) == [s EXCEPT !.error = NoTokenMsg, !.isLoading = FALSE]

\* --------------------------------------------------------------- actions
\* The view mounts: first render (spinner), then the effects: the
\* force-transition effect and the credential-keyed effect (lines 439-453).
Mount ==
    /\ ~mounted
    /\ gen > 0 => nEvents < MaxEvents
    /\ nEvents' = IF gen > 0 THEN nEvents + 1 ELSE nEvents
    /\ mounted' = TRUE
    /\ gen' = gen + 1
    /\ rendered' = Snapshot(InitialState, selectedLocation)
    /\ LET s1 == forceTransition(InitialState) IN
         IF accessToken = ""
         THEN /\ state' = noToken(s1)
              /\ UNCHANGED <<geoPending, nGeoRequests>>
         ELSE /\ state' = getCurrentPosition(s1)
              /\ geoPending' = IF geolocation THEN geoPending \cup {gen'} ELSE geoPending
              /\ nGeoRequests' = IF geolocation THEN 1 ELSE 0
    /\ UNCHANGED <<propVars, teardown, selectedLocation, refVars, pageVars, initTimers,
                   scriptHandlers, graceTimers, spriteWaits, loadTimers, maps>>

\* A scheduled re-render after state changed outside a user event.
Render ==
    /\ mounted
    /\ Snapshot(state, selectedLocation) # rendered
    /\ Commit(state, selectedLocation)
    /\ UNCHANGED <<propVars, teardown, selectedLocation, mounted, gen, refVars, pageVars,
                   geoPending, scriptHandlers, graceTimers, spriteWaits,
                   loadTimers, maps, nEvents, nGeoRequests>>

\* The geolocation success callback (lines 164-169).
GeoSuccess(g, coords) ==
    /\ g \in geoPending
    /\ geoPending' = geoPending \ {g}
    /\ state' = IF Alive(g)
                THEN [state EXCEPT !.userLocation = ToLngLat(coords),
                                   !.locationError = Null]
                ELSE state
    /\ UNCHANGED <<propVars, teardown, selectedLocation, mounted, gen, rendered, refVars,
                   pageVars, initTimers, scriptHandlers, graceTimers,
                   spriteWaits, loadTimers, maps, nEvents, nGeoRequests>>

\* The geolocation error callback (lines 170-190).
GeoError(g, code) ==
    /\ g \in geoPending
    /\ geoPending' = geoPending \ {g}
    /\ state' = IF Alive(g)
                THEN [state EXCEPT !.locationError = GeoErrorMessage(code),
                                   !.userLocation = Fallback]
                ELSE state
    /\ UNCHANGED <<propVars, teardown, selectedLocation, mounted, gen, rendered, refVars,
                   pageVars, initTimers, scriptHandlers, graceTimers,
                   spriteWaits, loadTimers, maps, nEvents, nGeoRequests>>

\* ------------------------------------------------------------ createMap
\* The style selection as it would be if the last branch kept the initial
\* value of mapStyle (line 215).
mapStyleKeepsDefault ==
    IF styleUrl # "" THEN styleUrl
    ELSE IF localStylePath # "" THEN localStylePath
    ELSE DefaultStyle

\* The style selection as it would be if the local path were tested before
\* the remote identifier.
mapStyleLocalFirst ==
    IF localStylePath # "" THEN localStylePath
    ELSE IF styleUrl # "" THEN styleUrl
    ELSE CustomStyle

\* The style createMap passes to the constructor (lines 214-230).
mapStyle ==
    IF styleUrl # "" THEN styleUrl
    ELSE IF localStylePath # "" THEN localStylePath
    ELSE CustomStyle

\* Whether createMap awaits loadSpriteImages() (line 225).
loadsSprites == styleUrl = "" /\ localStylePath # ""

\* mapCenter (line 235) and playerLocation (line 356) of a closure.
mapCenter(c) == IF c.userLocation # NullLoc THEN c.userLocation ELSE Fallback

\* A map as `new mapboxgl.Map(...)` returns it, with the closure its handlers
\* keep: the instance, the style and the userLocation of the creation attempt.
NewMap(c, style) ==
    [gen |-> c.gen, userLocation |-> c.userLocation, center |-> mapCenter(c),
     zoom |-> DefaultZoom, style |-> style, current |-> style,
     loaded |-> FALSE, live |-> TRUE, switches |-> 0]

\* What createMap writes.
createVars == <<state, sdkAccessToken, spriteWaits, mapInstance, maps,
                loadTimers, nEvents>>

\* createMap from the constructor on (lines 239-388): the map is constructed,
\* or the constructor throws; the observers are registered and the load
\* timer is started.
constructMap(c, style, throws) ==
    IF throws
    THEN /\ nEvents < MaxEvents
         /\ nEvents' = nEvents + 1
         /\ state' = setError(state, c.gen, CreateFailedMsg)
         /\ UNCHANGED <<mapInstance, maps, loadTimers>>
    ELSE /\ maps' = Append(maps, NewMap(c, style))
         /\ mapInstance' = [mapInstance EXCEPT ![c.gen] = Len(maps) + 1]
         /\ loadTimers' = Append(loadTimers, Len(maps) + 1)
         /\ UNCHANGED <<state, nEvents>>

\* createMap(container) of closure c (lines 195-394), up to its first
\* suspension; sdk tells whether window.mapboxgl is defined.
createMap(c, sdk, throws) ==
    IF ~sdk
    THEN /\ ~throws
         /\ state' = setError(state, c.gen, NotAvailableMsg)
         /\ UNCHANGED <<sdkAccessToken, spriteWaits, mapInstance, maps,
                        loadTimers, nEvents>>
    ELSE /\ sdkAccessToken' = accessToken
         /\ IF loadsSprites
            THEN /\ ~throws
                 /\ spriteWaits' = spriteWaits (+) SetToBag({c})
                 /\ UNCHANGED <<state, mapInstance, maps, loadTimers, nEvents>>
            ELSE /\ constructMap(c, mapStyle, throws)
                 /\ UNCHANGED spriteWaits

\* document.querySelector('link[href*="mapbox-gl.css"]') (line 59).
linkPresent == cssLinks > 0

\* The script check as it would be if it never found the tag.
scriptNeverPresent == FALSE

\* document.querySelector('script[src*="mapbox-gl.js"]') (line 67).
scriptPresent == scriptTags > 0

\* initializeMap(container) of closure c (lines 45-93).
initializeMap(c, throws) ==
    IF scriptState = "loaded"
    THEN /\ createMap(c, TRUE, throws)
         /\ UNCHANGED <<cssLinks, scriptTags, scriptState, scriptHandlers, graceTimers>>
    ELSE /\ ~throws
         /\ cssLinks' = IF ~linkPresent THEN cssLinks + 1 ELSE cssLinks
         /\ IF ~scriptPresent
            THEN /\ scriptTags' = scriptTags + 1
                 /\ scriptState' = "loading"
                 /\ scriptHandlers' = Append(scriptHandlers, c)
                 /\ UNCHANGED graceTimers
            ELSE /\ graceTimers' = Append(graceTimers, c)
                 /\ UNCHANGED <<scriptTags, scriptState, scriptHandlers>>
         /\ UNCHANGED createVars

\* The 100 ms timer of mapRef fires (lines 410-412, 415-417).
InitTimer(throws) ==
    /\ initTimers # <<>>
    /\ initTimers' = Tail(initTimers)
    /\ initializeMap(Head(initTimers), throws)
    /\ UNCHANGED <<propVars, teardown, selectedLocation, mounted, gen, rendered,
                   markerInstance, geoPending, nGeoRequests>>

\* script.onload (lines 73-76): window.mapboxgl is defined from here on.
ScriptLoad(throws) ==
    /\ scriptState = "loading"
    /\ scriptState' = "loaded"
    /\ scriptHandlers' = <<>>
    /\ createMap(Head(scriptHandlers), TRUE, throws)
    /\ UNCHANGED <<propVars, teardown, selectedLocation, mounted, gen, rendered,
                   markerInstance, cssLinks, scriptTags, geoPending, initTimers,
                   graceTimers, nGeoRequests>>

\* script.onerror (lines 78-82).
ScriptError ==
    /\ scriptState = "loading"
    /\ scriptState' = "failed"
    /\ scriptHandlers' = <<>>
    /\ state' = setError(state, Head(scriptHandlers).gen, ScriptFailedMsg)
    /\ UNCHANGED <<propVars, teardown, selectedLocation, mounted, gen, rendered, refVars,
                   cssLinks, scriptTags, sdkAccessToken, geoPending, initTimers,
                   graceTimers, spriteWaits, loadTimers, maps, nEvents,
                   nGeoRequests>>

\* The 500 ms grace timer fires (lines 87-91).
GraceTimer(throws) ==
    /\ graceTimers # <<>>
    /\ graceTimers' = Tail(graceTimers)
    /\ IF scriptState = "loaded"
       THEN createMap(Head(graceTimers), TRUE, throws)
       ELSE ~throws /\ UNCHANGED createVars
    /\ UNCHANGED <<propVars, teardown, selectedLocation, mounted, gen, rendered,
                   markerInstance, cssLinks, scriptTags, scriptState,
                   geoPending, initTimers, scriptHandlers, nGeoRequests>>

\* loadSpriteImages() settles and createMap resumes (lines 225-232).
SpriteDone(c, throws) ==
    /\ BagIn(c, spriteWaits)
    /\ spriteWaits' = spriteWaits (-) SetToBag({c})
    /\ constructMap(c, localStylePath, throws)
    /\ UNCHANGED <<propVars, teardown, selectedLocation, mounted, gen, rendered,
                   markerInstance, pageVars, geoPending, initTimers,
                   scriptHandlers, graceTimers, nGeoRequests>>

\* ------------------------------------------------------------ map events
\* message.includes('style') (line 293).
IncludesStyle(msg) == \E i \in 1..Len(msg) : msg[i] = "style"

\* The text the first `error` observer puts in error (line 261).
MapLoadErrorText(msg) ==
    CASE msg = <<>> -> "Map load error: Unknown error"
      [] msg = <<"network", "failed">> -> "Map load error: network failed"
      [] msg = <<"bad", "style">> -> "Map load error: bad style"

\* mapInstance.current.setStyle('mapbox://styles/mapbox/streets-v12') on the
\* map `target` (lines 298, 317): the call is counted; unless it throws, the
\* map is on the default style afterwards.
setStyle(ms, target, throws) ==
    [ms EXCEPT ![target].switches = @ + 1,
               ![target].current = IF throws THEN @ ELSE DefaultStyle]

\* Both `error` observers of map m (lines 259-263 and 289-304) run on an
\* `error` event with message msg.
MapError(m, msg, throws) ==
    /\ m \in 1..Len(maps)
    /\ maps[m].live
    /\ LET g == maps[m].gen
           calls == IncludesStyle(msg) /\ mapInstance[g] # NoHandle
           faults == IF throws THEN 2 ELSE 1
       IN /\ throws => calls
          /\ nEvents + faults <= MaxEvents
          /\ nEvents' = nEvents + faults
          /\ state' = setError(state, g, MapLoadErrorText(msg))
          /\ maps' = IF calls THEN setStyle(maps, mapInstance[g], throws) ELSE maps
    /\ UNCHANGED <<propVars, teardown, selectedLocation, mounted, gen, rendered, refVars,
                   pageVars, geoPending, initTimers, scriptHandlers, graceTimers,
                   spriteWaits, loadTimers, nGeoRequests>>

\* The 8 s load timer of the oldest creation attempt fires (lines 308-328).
LoadTimeout(throws) ==
    /\ loadTimers # <<>>
    /\ loadTimers' = Tail(loadTimers)
    /\ LET m == Head(loadTimers)
           g == maps[m].gen
       IN IF mapInstance[g] # NoHandle /\ maps[m].style # DefaultStyle
          THEN /\ throws => nEvents < MaxEvents
               /\ nEvents' = IF throws THEN nEvents + 1 ELSE nEvents
               /\ maps' = setStyle(maps, mapInstance[g], throws)
               /\ state' = IF throws THEN setError(state, g, TimeoutMsg) ELSE state
          ELSE /\ ~throws
               /\ state' = setError(state, g, TimeoutMsg)
               /\ UNCHANGED <<maps, nEvents>>
    /\ UNCHANGED <<propVars, teardown, selectedLocation, mounted, gen, rendered, refVars,
                   pageVars, geoPending, initTimers, scriptHandlers, graceTimers,
                   spriteWaits, nGeoRequests>>

\* The marker the `load` observer of map m leaves in markerInstance.current
\* (lines 356-379).
playerMarker(m) ==
    LET g == maps[m].gen IN
    IF mapInstance[g] # NoHandle
    THEN [made |-> TRUE, pos |-> mapCenter(maps[m]), map |-> mapInstance[g]]
    ELSE [made |-> TRUE, pos |-> NullLoc, map |-> NoHandle]

\* The load observer as it would be without its clearTimeout call.
clearNothing(timers, m) == timers

\* clearTimeout(timeoutId) of creation attempt m (line 334).
clearTimeout(timers, m) == SelectSeq(timers, LAMBDA t : t # m)

\* The observer's state change as it would be if it also cleared the error.
loadedStateClearsError(s) == [s EXCEPT !.isLoading = FALSE, !.error = Null]

\* The state change of the `load` observer: setIsLoading(false) (line 386).
loadedState(s) == [s EXCEPT !.isLoading = FALSE]

\* The `load` observer of map m runs (lines 333-387).
MapLoad(m) ==
    /\ m \in 1..Len(maps)
    /\ maps[m].live
    /\ ~maps[m].loaded
    /\ maps' = [maps EXCEPT ![m].loaded = TRUE]
    /\ loadTimers' = clearTimeout(loadTimers, m)
    /\ markerInstance' = [markerInstance EXCEPT ![maps[m].gen] = playerMarker(m)]
    /\ state' = IF Alive(maps[m].gen) THEN loadedState(state) ELSE state
    /\ UNCHANGED <<propVars, teardown, selectedLocation, mounted, gen, rendered,
                   mapInstance, pageVars, geoPending, initTimers, scriptHandlers,
                   graceTimers, spriteWaits, nEvents, nGeoRequests>>

\* ------------------------------------------------------- teardown, retry
\* map.remove() on a handle: the map stops being live.
removeMap(ms, h) == IF h = NoHandle THEN ms ELSE [ms EXCEPT ![h].live = FALSE]

\* The remove() calls of a teardown that releases the handles in the order
\* `order`: a call is made on each handle that is non-null.
removeCalls(g, order) ==
    LET called(x) == IF x = "map" THEN mapInstance[g] # NoHandle
                     ELSE markerInstance[g].made
    IN SelectSeq(order, called)

\* The count as it would be if handleRetry called getCurrentPosition().
requestsAfterRetryAgain(n) == n + 1

\* The number of geolocation requests of the mount after handleRetry, which
\* issues none (lines 472-487).
requestsAfterRetry(n) == n

\* The button as it would be with a hard stop at the third attempt.
retryOfferedBelow3(s) == View(s) = "error" /\ s.retryCount < 3

\* Whether the committed view offers the Retry button (lines 470, 494-499):
\* the error panel always does; the counter is only displayed.
retryOffered(s) == View(s) = "error"

\* A press of Retry: handleRetry (lines 472-487), then the re-render the
\* click causes.
pressRetry ==
    /\ mounted
    /\ retryOffered(rendered)
    /\ nGeoRequests' = requestsAfterRetry(nGeoRequests)
    /\ teardown' = removeCalls(gen, <<"map", "marker">>)
    /\ maps' = removeMap(maps, mapInstance[gen])
    /\ mapInstance' = [mapInstance EXCEPT ![gen] = NoHandle]
    /\ markerInstance' = [markerInstance EXCEPT ![gen] = NoMarker]
    /\ Commit([state EXCEPT !.error = Null, !.isLoading = TRUE,
                            !.retryCount = @ + 1], selectedLocation)
    /\ UNCHANGED <<propVars, selectedLocation, mounted, gen, pageVars,
                   geoPending, scriptHandlers, graceTimers, spriteWaits,
                   loadTimers>>

\* The user presses Retry, as one of the counted events.
handleRetry ==
    /\ nEvents < MaxEvents
    /\ nEvents' = nEvents + 1
    /\ pressRetry

\* The user presses Retry again and again; nothing else disturbs the view.
RetryAgain ==
    /\ state.retryCount < MaxRetries
    /\ UNCHANGED nEvents
    /\ pressRetry

\* The view unmounts: the cleanup of the credential-keyed effect
\* (lines 454-465).
Unmount ==
    /\ mounted
    /\ nEvents < MaxEvents
    /\ nEvents' = nEvents + 1
    /\ mounted' = FALSE
    /\ teardown' = removeCalls(gen, <<"marker", "map">>)
    /\ maps' = removeMap(maps, mapInstance[gen])
    /\ mapInstance' = [mapInstance EXCEPT ![gen] = NoHandle]
    /\ markerInstance' = [markerInstance EXCEPT ![gen] = NoMarker]
    /\ state' = InitialState
    /\ rendered' = Snapshot(InitialState, selectedLocation)
    /\ UNCHANGED <<propVars, selectedLocation, gen, pageVars, geoPending,
                   initTimers, scriptHandlers, graceTimers, spriteWaits,
                   loadTimers, nGeoRequests>>

\* The parent passes another selectedLocation (line 10) and the view
\* re-renders.
SelectLocation(sel) ==
    /\ mounted
    /\ nEvents < MaxEvents
    /\ nEvents' = nEvents + 1
    /\ sel # selectedLocation
    /\ selectedLocation' = sel
    /\ Commit(state, sel)
    /\ UNCHANGED <<propVars, teardown, mounted, gen, refVars, pageVars, geoPending,
                   scriptHandlers, graceTimers, spriteWaits, loadTimers, maps,
                   nGeoRequests>>

Next ==
    \/ Mount
    \/ Render
    \/ \E g \in Gens, c \in GeoPositions : GeoSuccess(g, c)
    \/ \E g \in Gens, code \in GeoErrorCodes : GeoError(g, code)
    \/ \E throws \in BOOLEAN : InitTimer(throws)
    \/ \E throws \in BOOLEAN : ScriptLoad(throws)
    \/ ScriptError
    \/ \E throws \in BOOLEAN : GraceTimer(throws)
    \/ \E c \in BagToSet(spriteWaits), throws \in BOOLEAN : SpriteDone(c, throws)
    \/ \E m \in 1..Len(maps), msg \in ErrorEvents, throws \in BOOLEAN :
          MapError(m, msg, throws)
    \/ \E throws \in BOOLEAN : LoadTimeout(throws)
    \/ \E m \in 1..Len(maps) : MapLoad(m)
    \/ handleRetry
    \/ Unmount
    \/ \E sel \in SelectedLocations : SelectLocation(sel)

Spec == Init /\ [][Next]_vars

\* The browser runs every scheduled re-render.
FairSpec == Spec /\ WF_vars(Render)

\* The view with a credential and the streets-v12 style, mounted once; the
\* SDK neither throws nor fires `error`, maps may load or time out, and the
\* user retries.
RetryInit ==
    /\ Init
    /\ accessToken # ""
    /\ styleUrl = DefaultStyle
    /\ localStylePath = ""

RetryNext ==
    \/ Mount
    \/ Render
    \/ \E g \in Gens, c \in GeoPositions : GeoSuccess(g, c)
    \/ \E g \in Gens, code \in GeoErrorCodes : GeoError(g, code)
    \/ InitTimer(FALSE)
    \/ ScriptLoad(FALSE)
    \/ ScriptError
    \/ GraceTimer(FALSE)
    \/ LoadTimeout(FALSE)
    \/ \E m \in 1..Len(maps) : MapLoad(m)
    \/ RetryAgain

RetrySpec == RetryInit /\ [][RetryNext]_vars

\* ---------------------------------------------------------------- claims
\* The presentation state: error if error is non-null, else loading if
\* isLoading, else ready.
Presentation ==
    IF View(state) = "map" THEN "ready" ELSE View(state)

\* The maps that are constructed and not removed.
LiveMaps == {m \in 1..Len(maps) : maps[m].live}

\* The markers that are attached to a map.
LiveMarkers == {g \in Gens : markerInstance[g].map # NoHandle}

\* No re-render is scheduled.
Settled == Snapshot(state, selectedLocation) = rendered

\* C1: no map is constructed before the location acquisition has resolved:
\* while an instance's geolocation request is pending, no map of that
\* instance exists.
C1_NoMapWhilePending ==
    \A m \in 1..Len(maps) : maps[m].gen \notin geoPending

\* C2: at most one map and at most one marker are live at any time, here
\* already in a run that no fault and no input disturbs.
C2_AtMostOneLive ==
    nEvents = 0 =>
        /\ Cardinality(LiveMaps) <= 1
        /\ Cardinality(LiveMarkers) <= 1

\* C3 as claimed: the controller is never in ready while no map exists or
\* while the current map has not fired load-completion.
C3_ReadyOnlyAfterLoad ==
    (mounted /\ Presentation = "ready") =>
        /\ mapInstance[gen] # NoHandle
        /\ maps[mapInstance[gen]].loaded

\* C3 as amended: the controller is in ready only with a non-empty credential
\* and after the location has been requested; ready may precede the
\* construction and the load-completion of the map.
C3_ReadyOnlyAfterRequest ==
    (mounted /\ Presentation = "ready") =>
        /\ accessToken # ""
        /\ state.locationRequested

\* C3's case: ready after the request, before any map is constructed.
C3_Witness ==
    /\ mounted
    /\ Presentation = "ready"
    /\ state.locationRequested
    /\ maps = <<>>

\* C4: with a non-empty credential the controller always leaves the loading
\* state (for ready or error), whatever the geolocation reports.
C4_LeavesLoading ==
    (mounted /\ accessToken # "" /\ Presentation = "loading")
        ~> (~mounted \/ Presentation # "loading")

\* C4's case: geolocation was denied and the controller has left loading.
C4_Witness ==
    /\ mounted
    /\ state.locationError = GeoErrorMessage(PERMISSION_DENIED)
    /\ state.userLocation = Fallback
    /\ Presentation = "ready"

\* C5: with a custom style identifier, a style-related `error` event does not
\* put the controller in the error state.
C5_StyleErrorNotSurfaced ==
    (mounted /\ styleUrl = RemoteStyle) =>
        state.error # MapLoadErrorText(<<"bad", "style">>)

\* C6: with an empty credential the controller is in the error state with
\* the configuration message whenever it has settled, also after a retry.
C6_NoTokenAlwaysError ==
    (mounted /\ accessToken = "" /\ Settled) => state.error = NoTokenMsg

\* C7: an attached marker is at the current userLocation once that is
\* resolved.
C7_MarkerAtUserLocation ==
    (mounted /\ markerInstance[gen].map # NoHandle /\ state.userLocation # NullLoc)
        => markerInstance[gen].pos = state.userLocation

\* C8: once geolocation has succeeded with coordinates c, every map of that
\* mount was constructed with center c.
C8_CenterIsReported ==
    (mounted /\ state.userLocation \notin {NullLoc, Fallback}) =>
        \A m \in 1..Len(maps) :
            maps[m].gen = gen => maps[m].center = state.userLocation

C10_AtMostOneSwitch ==
    \A m \in 1..Len(maps) : maps[m].switches <= 1

\* C11: a marker handle is non-null only while the map handle is non-null,
\* and that marker is attached to the live map the handle refers to.
C11_MarkerNeedsMap ==
    \A g \in Gens :
        markerInstance[g].made =>
            /\ mapInstance[g] # NoHandle
            /\ markerInstance[g].map = mapInstance[g]
            /\ maps[mapInstance[g]].live

\* C12: on every teardown (unmount cleanup and retry) that finds both a
\* marker and a map, the marker's remove is called before the map's remove.
C12_MarkerRemovedFirst ==
    teardown # <<"map", "marker">>

\* C13: once the controller is in ready, no map event, timer or callback
\* moves it to error or loading for as long as the instance stays mounted.
C13_ReadyIsStable ==
    [][(mounted /\ mounted' /\ gen' = gen /\ Presentation = "ready")
          => Presentation' = "ready"]_vars

\* C14: the page holds at most one SDK script tag and at most one SDK
\* stylesheet link, whatever mounts, ref-callback runs, retries and unmounts
\* happened.
C14_InjectedOnce ==
    /\ cssLinks <= 1
    /\ scriptTags <= 1

\* C14's case: a second initializeMap ran while the first script was still
\* loading; it found the tag and started the grace timer instead.
C14_Witness ==
    /\ scriptState = "loading"
    /\ graceTimers # <<>>
    /\ scriptTags = 1
    /\ cssLinks = 1

\* C15 as claimed: with neither style prop, the map is constructed with the
\* built-in default identifier.
C15_DefaultWhenNeither ==
    (styleUrl = "" /\ localStylePath = "") =>
        \A m \in 1..Len(maps) : maps[m].style = DefaultStyle

\* C15 as amended: every map is constructed with styleUrl when that is given
\* (also when localStylePath is given too), otherwise with localStylePath
\* when that is given, otherwise with the component's own custom style; and
\* sprite loading is awaited exactly by the constructions that use the local
\* style path.
C15_StylePrecedence ==
    /\ [](\A m \in 1..Len(maps) :
            maps[m].style = IF styleUrl # "" THEN styleUrl
                            ELSE IF localStylePath # "" THEN localStylePath
                            ELSE CustomStyle)
    /\ [][/\ BagCardinality(spriteWaits') > BagCardinality(spriteWaits)
               => (styleUrl = "" /\ localStylePath # "")
          /\ Len(maps') > Len(maps)
               => (BagCardinality(spriteWaits') < BagCardinality(spriteWaits)
                     <=> maps'[Len(maps')].style = localStylePath)]_vars

\* C15's case: both style props are given and a map was constructed with the
\* remote identifier.
C15_Witness ==
    /\ styleUrl = RemoteStyle
    /\ localStylePath = LocalStyle
    /\ maps # <<>>
    /\ maps[1].style = RemoteStyle

\* C16: within one mount the geolocation request is issued at most once;
\* no retry, geolocation failure, map error, timeout or re-render issues a
\* second one.
C16_OneRequestPerMount ==
    nGeoRequests <= 1

\* C16's case: the request failed, a map error or timeout was shown and the
\* user retried; the mount has still issued one request.
C16_Witness ==
    /\ mounted
    /\ state.locationError = GeoErrorMessage(TIMEOUT)
    /\ state.retryCount = 1
    /\ nGeoRequests = 1

\* C17: every geolocation failure (capability missing, permission denied,
\* position unavailable, timeout) sets userLocation to the fallback
\* [-0.09, 51.505] and locationError to a message and leaves error as it
\* was; a success sets userLocation to [longitude, latitude] and
\* locationError to null.
C17_GeoOutcome ==
    [][/\ \A g \in Gens, code \in GeoErrorCodes :
            (GeoError(g, code) /\ Alive(g)) =>
                /\ state'.userLocation = <<-90, 51505>>
                /\ state'.locationError # Null
                /\ state'.error = state.error
       /\ (Mount /\ accessToken # "" /\ ~geolocation) =>
                /\ state'.userLocation = <<-90, 51505>>
                /\ state'.locationError # Null
                /\ state'.error = Null
       /\ \A g \in Gens, coords \in GeoPositions :
            (GeoSuccess(g, coords) /\ Alive(g)) =>
                /\ state'.userLocation = <<coords.longitude, coords.latitude>>
                /\ state'.locationError = Null
                /\ state'.error = state.error]_vars

\* C17's case: the position was unavailable; the fallback and the message
\* are set and error is not.
C17_Witness ==
    /\ mounted
    /\ gen \notin geoPending
    /\ state.locationError = GeoErrorMessage(POSITION_UNAVAILABLE)
    /\ state.userLocation = Fallback
    /\ state.error = Null

\* C18: the retry action is enabled in every error state whatever the retry
\* counter holds, and each press clears error, sets isLoading, leaves both
\* handles null, adds exactly 1 to the counter and leaves userLocation,
\* locationError and locationRequested as they were.
C18_RetryEffect ==
    /\ []((mounted /\ View(rendered) = "error") => ENABLED pressRetry)
    /\ [][pressRetry =>
             /\ rendered'.error = Null
             /\ rendered'.isLoading
             /\ state'.error = Null
             /\ mapInstance'[gen] = NoHandle
             /\ markerInstance'[gen] = NoMarker
             /\ state'.retryCount = state.retryCount + 1
             /\ state'.userLocation = state.userLocation
             /\ state'.locationError = state.locationError
             /\ state'.locationRequested = state.locationRequested]_vars

\* C18's case: Retry was pressed with the counter at 3.
C18_Witness ==
    /\ mounted
    /\ state.retryCount = 4
    /\ rendered.retryCount = 4
    /\ rendered.isLoading
    /\ mapInstance[gen] = NoHandle

\* C19: from unmount until the next mount both handles stay null: no late
\* timer, script event, map event or geolocation callback constructs a map
\* or a marker.
C19_NullWhileUnmounted ==
    ~mounted =>
        \A g \in Gens :
            /\ mapInstance[g] = NoHandle
            /\ ~markerInstance[g].made

\* C20: when the load timer fires: if the map in the handle is live and a
\* non-default style is active on it, one switch to the default style is
\* attempted and, unless it throws, error stays as it was; if the default
\* style is already active, or the handle is null, or the switch throws,
\* error becomes the load-timeout message and isLoading false.
C20_TimeoutByActiveStyle ==
    [][\A throws \in BOOLEAN :
         LoadTimeout(throws) =>
            LET m == Head(loadTimers)
                g == maps[m].gen
                h == mapInstance[g]
                switchable == h # NoHandle /\ maps[h].current # DefaultStyle
            IN /\ switchable =>
                    /\ maps'[h].switches = maps[h].switches + 1
                    /\ ~throws => state'.error = state.error
               /\ ~switchable => maps' = maps
               /\ ((~switchable \/ throws) /\ Alive(g)) =>
                    /\ state'.error = TimeoutMsg
                    /\ ~state'.isLoading]_vars

\* C21: a load timer left over from an attempt whose map a retry has
\* removed neither sets the load-timeout error nor calls setStyle on
\* another attempt's map.
C21_LeftoverTimerIsInert ==
    [][\A throws \in BOOLEAN :
         LoadTimeout(throws) =>
            LET m == Head(loadTimers) IN
            (Alive(maps[m].gen) /\ ~maps[m].live) =>
                /\ maps' = maps
                /\ state'.error = state.error]_vars

\* C22: once the `load` observer of a map has run, the load timer of that
\* creation attempt is cancelled: it is no longer pending, so it can neither
\* set the load-timeout error nor switch a style afterwards.
C22_LoadCancelsTimer ==
    \A i \in 1..Len(loadTimers) : ~maps[loadTimers[i]].loaded

\* C22's case: a map has loaded before its timer fired, while the timer of
\* another attempt is still pending.
C22_Witness ==
    \E m \in 1..Len(maps) :
        /\ maps[m].loaded
        /\ maps[m].switches = 0
        /\ state.error = Null
        /\ loadTimers # <<>>
        /\ \A i \in 1..Len(loadTimers) : loadTimers[i] # m

\* No timer, script event, sprite fetch or geolocation callback is pending.
NoContinuation ==
    /\ initTimers = <<>>
    /\ scriptHandlers = <<>>
    /\ graceTimers = <<>>
    /\ spriteWaits = EmptyBag
    /\ loadTimers = <<>>
    /\ geoPending = {}

\* C23: with a non-empty credential a retry never ends in a state with no
\* map, no pending continuation and no error.
C23_RetryNeverStalls ==
    (mounted /\ accessToken # "" /\ state.retryCount > 0 /\ Settled
        /\ NoContinuation)
        => (state.error # Null \/ mapInstance[gen] # NoHandle)

\* C24: when the SDK script fails to load, the controller enters the error
\* state with 'Failed to load Mapbox script' and isLoading false, and that
\* initialization constructs no map and starts no load timer.
C24_ScriptFailure ==
    /\ [][ScriptError =>
             /\ Alive(Head(scriptHandlers).gen) =>
                   /\ state'.error = "Failed to load Mapbox script"
                   /\ ~state'.isLoading
             /\ maps' = maps
             /\ loadTimers' = loadTimers
             /\ mapInstance' = mapInstance]_vars
    /\ [](scriptState = "failed" => (maps = <<>> /\ loadTimers = <<>>))

\* C24's case: the script failed and the error is shown.
C24_Witness ==
    /\ mounted
    /\ scriptState = "failed"
    /\ rendered.error = ScriptFailedMsg
    /\ ~rendered.isLoading
    /\ maps = <<>>

\* C25: when the map constructor throws, the controller enters the error
\* state with the creation-failure message, the map handle is null
\* afterwards, and no map and no load timer is added for that attempt.
C25_NoHandleAfterThrow ==
    [][(mounted /\ state.error # CreateFailedMsg
           /\ state'.error = CreateFailedMsg) =>
          /\ ~state'.isLoading
          /\ mapInstance'[gen] = NoHandle
          /\ maps' = maps
          /\ loadTimers' = loadTimers]_vars

\* C26: whenever the controller is in the error state, no map and no marker
\* of the instance is live and both handles are null.
C26_ErrorReleases ==
    (mounted /\ state.error # Null) =>
        /\ mapInstance[gen] = NoHandle
        /\ ~markerInstance[gen].made
        /\ \A m \in LiveMaps : maps[m].gen # gen

\* C27: a non-null error implies isLoading false; and within one mount
\* isLoading becomes true again only by a press of Retry, which clears the
\* error in the same step.
C27_ErrorMeansNotLoading ==
    /\ [](state.error # Null => ~state.isLoading)
    /\ [](rendered.error # Null => ~rendered.isLoading)
    /\ [][(mounted /\ mounted' /\ gen' = gen
            /\ \/ ~state.isLoading /\ state'.isLoading
               \/ ~rendered.isLoading /\ rendered'.isLoading)
           => (pressRetry /\ state'.error = Null /\ rendered'.error = Null)]_vars

\* C27's case: after a retry an error was set again, with isLoading false.
C27_Witness ==
    /\ mounted
    /\ state.retryCount = 1
    /\ state.error = TimeoutMsg
    /\ ~state.isLoading

\* C28: within one mount a non-null error is cleared only by a press of
\* Retry; a `load` event that arrives while an error is set makes the marker
\* (attached to the map in the handle) and leaves error as it is.
C28_OnlyRetryClearsError ==
    /\ [][(mounted /\ mounted' /\ gen' = gen
            /\ state.error # Null /\ state'.error = Null)
           => pressRetry]_vars
    /\ [][\A m \in 1..Len(maps) :
            (MapLoad(m) /\ Alive(maps[m].gen) /\ state.error # Null) =>
                /\ state'.error = state.error
                /\ markerInstance'[gen].made
                /\ mapInstance[gen] # NoHandle
                      => markerInstance'[gen].map = mapInstance[gen]]_vars

\* C28's case: the only map timed out, the error was surfaced, then the map
\* fired `load`: the marker is attached and the error is still there.
C28_Witness ==
    /\ mounted
    /\ Len(maps) = 1
    /\ maps[1].loaded
    /\ markerInstance[gen].map = 1
    /\ state.error = TimeoutMsg
    /\ state.retryCount = 0

====
